---------------------------- MODULE Spec2Model ----------------------------
(***************************************************************************)
(* Model of the vrec job recorder (src/src/recorder.rs): jobs spawned as   *)
(* background processes, their state kept in one directory per job, the    *)
(* liveness probe, the pruning sweep and the child reaper.                 *)
(*                                                                         *)
(* Texts (file contents, command line words) are sequences of one-char     *)
(* strings, so that formatting and parsing are computed, not assumed.      *)
(***************************************************************************)
EXTENDS Integers, Sequences, FiniteSets, TLC

\* ------------------------------------------------------------------ bounds
MaxJobs == 2        \* job identifiers 1..MaxJobs, handed out in time order
MaxPid == 2         \* process ids 1..MaxPid of the modelled process table

JobIds == 1..MaxJobs
Pids == 1..MaxPid

\* i32::MAX, the range of the pid parsed by Job::pid
I32Max == 2147483647

\* Calls of JobId::new, milliseconds the clock may advance, and the largest
\* random part drawn (of 80 random bits).
MaxIds == 3
MaxTick == 3
MaxRand == 1

\* The clock starts a little before a carry into the next base-32 digit.
TimeBase == 30

\* A ULID string: 10 characters of timestamp, 16 of randomness.
TimeChars == 10
RandChars == 16

\* The process group of the calling application (server or `--gc` run); its
\* members are outside the modelled process table.
AppPgid == MaxPid + 1

\* ------------------------------------------------------- texts and numbers
DigitChars == <<"0", "1", "2", "3", "4", "5", "6", "7", "8", "9">>

IsDigit(c) == \E i \in 1..10 : DigitChars[i] = c

DigitVal(c) == (CHOOSE i \in 1..10 : DigitChars[i] = c) - 1

\* Rust's char::is_whitespace, restricted to the characters of the model.
Whitespace == {" ", "\n", "\t", "\r"}

\* format!("{}", n) of an unsigned integer: its decimal digits.
RECURSIVE FmtNat(_)
FmtNat(n) ==
    IF n < 10 THEN <<DigitChars[n + 1]>>
    ELSE FmtNat(n \div 10) \o <<DigitChars[(n % 10) + 1]>>

\* str::trim_end: drops trailing whitespace only.
RECURSIVE TrimEnd(_)
TrimEnd(s) ==
    IF s = <<>> THEN s
    ELSE IF s[Len(s)] \in Whitespace THEN TrimEnd(SubSeq(s, 1, Len(s) - 1))
    ELSE s

Err == [ok |-> FALSE, val |-> 0]
Ok(v) == [ok |-> TRUE, val |-> v]

\* The digit loop of str::parse::<i32>: checked_mul(10), then checked_add of
\* the digit, or checked_sub when the text began with '-'; a character that
\* is no digit and a value that leaves the i32 range are errors.
RECURSIVE ReadDigits(_, _, _)
ReadDigits(s, acc, neg) ==
    IF s = <<>> THEN Ok(acc)
    ELSE IF ~IsDigit(Head(s)) THEN Err
    ELSE LET d == DigitVal(Head(s))
         IN  IF neg
             THEN IF acc < 0 - (I32Max \div 10) \/ acc * 10 < (0 - I32Max) - 1 + d
                  THEN Err
                  ELSE ReadDigits(Tail(s), acc * 10 - d, neg)
             ELSE IF acc > I32Max \div 10 \/ acc * 10 > I32Max - d
                  THEN Err
                  ELSE ReadDigits(Tail(s), acc * 10 + d, neg)

\* str::parse::<i32>: an optional single sign, then at least one digit,
\* nothing else; a value outside the i32 range is an error.
ParseI32(s) ==
    IF s = <<>> THEN Err
    ELSE LET signed == Head(s) \in {"+", "-"}
             digits == IF signed THEN Tail(s) ELSE s
         IN  IF digits = <<>> THEN Err
             ELSE ReadDigits(digits, 0, Head(s) = "-")


\* ------------------------------------------------------------------- JSON
\* serde_json on the part of JSON the recorder writes: one object whose
\* members are strings or arrays of strings.  A member value is
\* [kind, str, arr]; an object is the set of its [key, val] members.
KeyCommand == <<"c", "o", "m", "m", "a", "n", "d">>
KeyArgs == <<"a", "r", "g", "s">>

StrVal(s) == [kind |-> "str", str |-> s, arr |-> <<>>]
ArrVal(a) == [kind |-> "arr", str |-> <<>>, arr |-> a]

None == [some |-> FALSE, val |-> {}]
Some(v) == [some |-> TRUE, val |-> v]

\* Faulty variant: nothing is escaped.
EscapeCharVerbatim(c) == <<c>>

\* The characters serde_json writes with a backslash, and how.
EscapeChar(c) ==
    CASE c = "\"" -> <<"\\", "\"">>
      [] c = "\\" -> <<"\\", "\\">>
      [] c = "\n" -> <<"\\", "n">>
      [] c = "\t" -> <<"\\", "t">>
      [] c = "\r" -> <<"\\", "r">>
      [] OTHER -> <<c>>

RECURSIVE EscapeStr(_)
EscapeStr(s) ==
    IF s = <<>> THEN <<>> ELSE EscapeChar(Head(s)) \o EscapeStr(Tail(s))

Quote(s) == <<"\"">> \o EscapeStr(s) \o <<"\"">>

RECURSIVE JoinQuoted(_)
JoinQuoted(a) ==
    IF a = <<>> THEN <<>>
    ELSE IF Len(a) = 1 THEN Quote(a[1])
    ELSE Quote(Head(a)) \o <<",">> \o JoinQuoted(Tail(a))

\* json!({ "command": command, "args": &args }) in its Display form: the
\* members in key order, no spaces.
InvocationJson(command, args) ==
    <<"{">> \o Quote(KeyArgs) \o <<":", "[">> \o JoinQuoted(args) \o <<"]", ",">>
        \o Quote(KeyCommand) \o <<":">> \o Quote(command) \o <<"}">>

At(t, i) == IF i >= 1 /\ i <= Len(t) THEN t[i] ELSE ""

RECURSIVE SkipWs(_, _)
SkipWs(t, i) ==
    IF i <= Len(t) /\ t[i] \in Whitespace THEN SkipWs(t, i + 1) ELSE i

UnescapeLetters == {"\"", "\\", "/", "n", "t", "r"}

UnescapeChar(c) ==
    CASE c = "n" -> "\n"
      [] c = "t" -> "\t"
      [] c = "r" -> "\r"
      [] OTHER -> c

StrFail == [ok |-> FALSE, pos |-> 0, str |-> <<>>]

\* The body of a JSON string from position i, up to its closing quote.
RECURSIVE ReadStr(_, _, _)
ReadStr(t, i, acc) ==
    IF i > Len(t) THEN StrFail
    ELSE IF t[i] = "\"" THEN [ok |-> TRUE, pos |-> i + 1, str |-> acc]
    ELSE IF t[i] = "\\"
         THEN IF At(t, i + 1) \in UnescapeLetters
              THEN ReadStr(t, i + 2, Append(acc, UnescapeChar(t[i + 1])))
              ELSE StrFail
    ELSE IF t[i] \in {"\n", "\t", "\r"} THEN StrFail
    ELSE ReadStr(t, i + 1, Append(acc, t[i]))

ParseString(t, i) == IF At(t, i) = "\"" THEN ReadStr(t, i + 1, <<>>) ELSE StrFail

ValFail == [ok |-> FALSE, pos |-> 0, val |-> StrVal(<<>>)]

\* The elements of an array, i at the first character of an element.
RECURSIVE ReadElems(_, _, _)
ReadElems(t, i, acc) ==
    LET s == ParseString(t, i)
        k == SkipWs(t, s.pos)
    IN  IF ~s.ok THEN ValFail
        ELSE IF At(t, k) = ","
             THEN ReadElems(t, SkipWs(t, k + 1), Append(acc, s.str))
        ELSE IF At(t, k) = "]"
             THEN [ok |-> TRUE, pos |-> k + 1, val |-> ArrVal(Append(acc, s.str))]
        ELSE ValFail

ParseValue(t, i) ==
    IF At(t, i) = "\""
    THEN LET s == ParseString(t, i)
         IN  IF s.ok THEN [ok |-> TRUE, pos |-> s.pos, val |-> StrVal(s.str)]
             ELSE ValFail
    ELSE IF At(t, i) = "["
    THEN LET j == SkipWs(t, i + 1)
         IN  IF At(t, j) = "]"
             THEN [ok |-> TRUE, pos |-> j + 1, val |-> ArrVal(<<>>)]
             ELSE ReadElems(t, j, <<>>)
    ELSE ValFail

ObjFail == [ok |-> FALSE, pos |-> 0, obj |-> {}]

\* Map::insert: a repeated key keeps the last value.
PutMember(obj, k, v) == {e \in obj : e.key # k} \cup {[key |-> k, val |-> v]}

\* The members of an object, i at the first character of a key.
RECURSIVE ReadMembers(_, _, _)
ReadMembers(t, i, acc) ==
    LET k == ParseString(t, i)
        c == SkipWs(t, k.pos)
        v == ParseValue(t, SkipWs(t, c + 1))
        m == SkipWs(t, v.pos)
    IN  IF ~k.ok \/ At(t, c) # ":" THEN ObjFail
        ELSE IF ~v.ok THEN ObjFail
        ELSE IF At(t, m) = ","
             THEN ReadMembers(t, SkipWs(t, m + 1), PutMember(acc, k.str, v.val))
        ELSE IF At(t, m) = "}"
             THEN [ok |-> TRUE, pos |-> m + 1, obj |-> PutMember(acc, k.str, v.val)]
        ELSE ObjFail

ParseObject(t, i) ==
    IF At(t, i) # "{" THEN ObjFail
    ELSE LET j == SkipWs(t, i + 1)
         IN  IF At(t, j) = "}" THEN [ok |-> TRUE, pos |-> j + 1, obj |-> {}]
             ELSE ReadMembers(t, j, {})

\* Faulty variant: what follows the first JSON value is not looked at.
FromJsonLenient(t) ==
    LET r == ParseObject(t, SkipWs(t, 1))
    IN  IF r.ok THEN Some(r.obj) ELSE None

\* serde_json::from_reader(..).ok(): the value, when the whole text is one
\* JSON value followed by nothing but whitespace.
FromJson(t) ==
    LET r == ParseObject(t, SkipWs(t, 1))
    IN  IF r.ok /\ SkipWs(t, r.pos) > Len(t) THEN Some(r.obj) ELSE None


\* ------------------------------------------------------------------ state
\* Inputs of spawn_job.  The HTTP handlers always pass "youtube-dl" (here
\* "yt"); the argument vector holds two words, the second with a space, a
\* quote, a comma and a backslash.
Commands == { <<"y", "t">> }
ArgVectors == { << <<"a">>, <<" ", "\"", ",", "\\">> >> }

\* Names a job's process may create at the top of its directory.
TopNames == { <<"r">>, <<".", "p">> }

\* A name of the work directory that no job uses.
StrayName == 0

VARIABLES
    fs,       \* fs[j]: the directory tree of job j under the work directory
    proc,     \* proc[j]: the child process launched for job j
    ext,      \* ext[p]: a process unrelated to the recorder holding pid p
    spawn,    \* spawn[j]: the spawn_job call that owns identifier j
    sweep,    \* the prune_job_dirs call: where it is, what is left to visit
    hist,     \* history of the current or last sweep, kept while nothing else acts
    reaper,   \* the child reaper thread and the pending SIGCHLD
    stray,    \* what the work directory holds under StrayName
    probe,    \* the last answer of a liveness request
    clock,    \* the wall clock JobId::new reads, in milliseconds
    issued,   \* issued[k]: the identifier the k-th JobId::new produced
    tree,     \* the job directories by name, as spawn_job calls wrote them
    disk,     \* the files and directories by path, as named requests see them
    reply,    \* the last reply of a request on a job named by the client
    vfs,      \* what statvfs gives for the work directory
    size      \* the byte count given to humanize_byte_size, in decimal digits

\* What the requests on named jobs and the identifier generator work on.
\* What the disk usage display works on.
host == <<vfs, size>>

web == <<clock, issued, tree, disk, reply, host>>

vars == <<fs, proc, ext, spawn, sweep, hist, reaper, stray, probe, web>>

\* A reply: the request, the job it names (by number or by the string the
\* client sent), the file name it sent, the HTTP status, the path the
\* handler went to, the invocation it showed, how a deletion or a spawn
\* ended, and the access key the request carried.
NoReply == [op |-> "none", job |-> StrayName, id |-> <<>>, name |-> <<>>,
            status |-> 0, path |-> <<>>, val |-> None, done |-> "none",
            key |-> <<>>]

\* Nothing generated, nothing requested.
\* statvfs not called: the path it is given, its return code, and the
\* counts it fills in.
NoVfs == [path |-> "none", rc |-> 0, f_bavail |-> 0, f_blocks |-> 0, f_frsize |-> 0]

WebIdle ==
    /\ clock = 0
    /\ issued = <<>>
    /\ tree = {}
    /\ disk = {}
    /\ reply = NoReply
    /\ vfs = NoVfs
    /\ size = <<>>

NoFile == [ex |-> FALSE, rd |-> "ok", text |-> <<>>]
FileOf(text) == [ex |-> TRUE, rd |-> "ok", text |-> text]

\* No directory of that name.
NoDir == [dir |-> FALSE, info |-> FALSE, inv |-> NoFile, out |-> FALSE,
          err |-> FALSE, pid |-> NoFile, top |-> {}]

NoProc == [pid |-> 0, st |-> "none"]

IdleSweep == [pc |-> "idle", todo |-> <<>>]

\* History of a sweep: the listing it took, the jobs that met the condition
\* when it was taken, the jobs removed so far, the job whose removal failed,
\* the result once returned, the result of the sweep before it when that one
\* ran and ended with nothing else happening, and whether nothing else has
\* happened since this sweep began.
NoHist == [listing |-> <<>>, qual |-> {}, removed |-> {}, failedAt |-> 0,
           result |-> "none", prev |-> "none", clean |-> FALSE]

\* ------------------------------------------------------- the process table
Living(j) == proc[j].st \in {"alive", "zombie"}

\* Who holds process id p: a child of the recorder (alive, or exited and not
\* yet reaped), an unrelated process of the same user or of another user, or
\* nobody.
Occupant(p) ==
    IF ext[p] # "none" THEN ext[p]
    ELSE IF \E j \in JobIds : Living(j) /\ proc[j].pid = p THEN "child"
    ELSE "free"

PidFree(p) == Occupant(p) = "free"

\* The caller may signal p: it exists and belongs to the same user.
Signalable(p) == Occupant(p) \in {"child", "same"}

\* libc::kill(pid, 0), 0 or -1.  pid > 0 names one process (ESRCH when there
\* is none, EPERM when it belongs to another user); 0 names the caller's own
\* process group, which always holds the caller; -1 names every process the
\* caller may signal; pid < -1 names the process group -pid (children stay in
\* the application's group, an unrelated process leads its own).
Kill(pid) ==
    IF pid > 0 THEN (IF pid \in Pids /\ Signalable(pid) THEN 0 ELSE -1)
    ELSE IF pid = 0 THEN 0
    ELSE IF pid = -1 THEN (IF \E p \in Pids : Signalable(p) THEN 0 ELSE -1)
    ELSE IF 0 - pid = AppPgid THEN 0
    ELSE IF (0 - pid) \in Pids /\ ext[0 - pid] = "same" THEN 0
    ELSE -1

\* --------------------------------------------------------- Job and JobDir
\* Faulty variant: a pid that cannot be read counts as pid 0.
JobPidOrZero(j) ==
    LET f == fs[j].pid
    IN  IF ~fs[j].dir \/ ~fs[j].info \/ ~f.ex \/ f.rd # "ok" THEN Ok(0)
        ELSE IF ParseI32(TrimEnd(f.text)).ok THEN ParseI32(TrimEnd(f.text))
        ELSE Ok(0)

\* Job::pid: open info/pid.txt, read it, trim the end, parse an i32.
JobPid(j) ==
    LET f == fs[j].pid
    IN  IF ~fs[j].dir \/ ~fs[j].info \/ ~f.ex \/ f.rd = "deny" THEN Err
        ELSE IF f.rd = "bad" THEN Err
        ELSE ParseI32(TrimEnd(f.text))

\* Faulty variant: a job whose pid cannot be read counts as running.
IsRunningWhenUnknown(j) ==
    LET r == JobPid(j)
    IN  IF r.ok THEN Kill(r.val) = 0 ELSE TRUE

\* Job::is_running.
IsRunning(j) ==
    LET r == JobPid(j)
    IN  IF r.ok THEN Kill(r.val) = 0 ELSE FALSE

\* read_dir of the job directory: its entries with their kinds.
Entries(j) ==
    { [name |-> n, kind |-> "file"] : n \in fs[j].top }
        \cup (IF fs[j].info THEN { [name |-> <<"i", "n", "f", "o">>, kind |-> "dir"] }
              ELSE {})

\* JobDir::file_names: the regular files at the top whose name does not start
\* with a dot; nothing when the directory cannot be read.
FileNames(j) ==
    IF ~fs[j].dir THEN {}
    ELSE { e.name : e \in { x \in Entries(j) : x.kind = "file" /\ x.name[1] # "." } }

\* Job::invocation.
Invocation(j) ==
    LET f == fs[j].inv
    IN  IF ~fs[j].dir \/ ~fs[j].info \/ ~f.ex \/ f.rd # "ok" THEN None
        ELSE FromJson(f.text)

\* What the root directory holds under a name.
RootKind(n) ==
    IF n = StrayName THEN stray
    ELSE IF n \in JobIds /\ fs[n].dir THEN "dir"
    ELSE "absent"

\* Faulty variant: any entry of that name gives a handle.
RecorderJobAnyEntry(n) ==
    IF RootKind(n) # "absent" THEN [some |-> TRUE, id |-> n]
    ELSE [some |-> FALSE, id |-> StrayName]

\* Recorder::job: a handle when the path is a directory.
RecorderJob(n) ==
    IF RootKind(n) = "dir" THEN [some |-> TRUE, id |-> n]
    ELSE [some |-> FALSE, id |-> StrayName]

\* WorkDir::job_dirs: the subdirectories of the root.
JobDirs == { n \in JobIds \cup {StrayName} : RootKind(n) = "dir" }

\* The orders in which read_dir may list a set of names.
Listings(S) ==
    { q \in [1..Cardinality(S) -> S] : \A a \in S : \E i \in DOMAIN q : q[i] = a }

\* writeln!(&pid_file, "{}", child.id()).
PidText(p) == FmtNat(p) \o <<"\n">>

\* writeln!(&f, "{}", json).
InvocationText(command, args) == InvocationJson(command, args) \o <<"\n">>

TypeOK ==
    /\ DOMAIN fs = JobIds /\ DOMAIN proc = JobIds /\ DOMAIN spawn = JobIds
    /\ \A j \in JobIds :
          /\ proc[j].pid \in 0..MaxPid
          /\ proc[j].st \in {"none", "alive", "zombie", "reaped"}
          /\ spawn[j].pc \in {"new", "inv", "streams", "launch", "pid", "ok", "err"}
          /\ fs[j].top \subseteq TopNames
    /\ \A p \in Pids : ext[p] \in {"none", "same", "foreign"}
    /\ sweep.pc \in {"idle", "probe", "names", "remove"}
    /\ hist.result \in {"none", "Ok", "Err"}
    /\ hist.removed \subseteq JobIds
    /\ reaper.pc \in {"wait", "reap"}
    /\ stray \in {"absent", "file"}


\* An operation other than the sweep acts: the history of a returned sweep
\* is dropped, a sweep under way is no longer undisturbed.
Disturb ==
    hist' = IF sweep.pc = "idle" THEN NoHist
            ELSE [hist EXCEPT !.clean = FALSE, !.qual = {}, !.prev = "none"]

\* --------------------------------------------------------------- spawn_job
\* Faulty variant: a spawn that cannot create its stream files removes the
\* job directory again.
SpawnCreateStreamsRollsBack(j) ==
    /\ spawn[j].pc = "streams"
    /\ \E res \in (IF fs[j].info THEN {"both", "failed"} ELSE {"failed"}) :
          /\ fs' = [fs EXCEPT ![j] =
                      IF res = "both" THEN [@ EXCEPT !.out = TRUE, !.err = TRUE]
                      ELSE NoDir]
          /\ spawn' = [spawn EXCEPT ![j].pc =
                          IF res = "both" THEN "launch" ELSE "err"]
    /\ hist' = IF sweep.pc = "idle" THEN NoHist
               ELSE [hist EXCEPT !.clean = FALSE, !.qual = {}, !.prev = "none"]
    /\ UNCHANGED <<proc, ext, sweep, reaper, stray, probe, web>>

\* Recorder::spawn_job up to Job::spawn's create_dir("info"): a fresh
\* identifier (identifiers come in time order), then create_dir_all, which
\* may fail before or after making the job directory itself.
SpawnCreateInfo(j, command, args) ==
    /\ spawn[j].pc = "new"
    /\ \A i \in JobIds : i < j => spawn[i].pc # "new"
    /\ \E made \in {"both", "dir", "nothing"} :
          /\ fs' = [fs EXCEPT ![j].dir = (made # "nothing"),
                              ![j].info = (made = "both")]
          /\ spawn' = [spawn EXCEPT ![j] =
                          [pc |-> IF made = "both" THEN "inv" ELSE "err",
                           command |-> command, args |-> args]]
    /\ Disturb
    /\ UNCHANGED <<proc, ext, sweep, reaper, stray, probe, web>>

\* create_file("info/invocation.json") and the writeln! of the JSON text.
\* Creating fails when info/ is gone; a failed write leaves an empty file.
SpawnWriteInvocation(j) ==
    /\ spawn[j].pc = "inv"
    /\ \E res \in (IF fs[j].info THEN {"written", "created", "failed"} ELSE {"failed"}) :
          /\ fs' = [fs EXCEPT ![j].inv =
                      IF res = "written"
                      THEN FileOf(InvocationText(spawn[j].command, spawn[j].args))
                      ELSE IF res = "created" THEN FileOf(<<>>) ELSE @]
          /\ spawn' = [spawn EXCEPT ![j].pc =
                          IF res = "written" THEN "streams" ELSE "err"]
    /\ Disturb
    /\ UNCHANGED <<proc, ext, sweep, reaper, stray, probe, web>>

\* Faulty variant: the spawn goes on to launch without stderr.txt.
SpawnCreateStreamsGoesOn(j) ==
    /\ spawn[j].pc = "streams"
    /\ \E res \in (IF fs[j].info THEN {"both", "stdout", "failed"} ELSE {"failed"}) :
          /\ fs' = [fs EXCEPT ![j].out = (@ \/ res # "failed"),
                              ![j].err = (@ \/ res = "both")]
          /\ spawn' = [spawn EXCEPT ![j].pc =
                          IF res # "failed" THEN "launch" ELSE "err"]
    /\ hist' = IF sweep.pc = "idle" THEN NoHist
               ELSE [hist EXCEPT !.clean = FALSE, !.qual = {}, !.prev = "none"]
    /\ UNCHANGED <<proc, ext, sweep, reaper, stray, probe, web>>

\* create_file("info/stdout.txt")?, then create_file("info/stderr.txt")?.
SpawnCreateStreams(j) ==
    /\ spawn[j].pc = "streams"
    /\ \E res \in (IF fs[j].info THEN {"both", "stdout", "failed"} ELSE {"failed"}) :
          /\ fs' = [fs EXCEPT ![j].out = (@ \/ res # "failed"),
                              ![j].err = (@ \/ res = "both")]
          /\ spawn' = [spawn EXCEPT ![j].pc =
                          IF res = "both" THEN "launch" ELSE "err"]
    /\ Disturb
    /\ UNCHANGED <<proc, ext, sweep, reaper, stray, probe, web>>

\* Command::new(command).args(args).current_dir(job dir)...spawn()?: the
\* system picks a free process id; the launch fails when the command cannot
\* be run, when the job directory is gone or when no process id is free.
SpawnLaunch(j) ==
    /\ spawn[j].pc = "launch"
    /\ \/ \E p \in Pids :
             /\ fs[j].dir
             /\ PidFree(p)
             /\ proc' = [proc EXCEPT ![j] = [pid |-> p, st |-> "alive"]]
             /\ spawn' = [spawn EXCEPT ![j].pc = "pid"]
       \/ /\ spawn' = [spawn EXCEPT ![j].pc = "err"]
          /\ UNCHANGED proc
    /\ Disturb
    /\ UNCHANGED <<fs, ext, sweep, reaper, stray, probe, web>>

\* create_file("info/pid.txt")?, writeln!(.., child.id())?, Ok(()).  The
\* writeln! writes the digits and then the newline: it may fail before the
\* first (an empty file) or between the two (the digits alone).
SpawnWritePid(j) ==
    /\ spawn[j].pc = "pid"
    /\ \E res \in (IF fs[j].info THEN {"written", "digits", "created", "failed"}
                   ELSE {"failed"}) :
          /\ fs' = [fs EXCEPT ![j].pid =
                      IF res = "written" THEN FileOf(PidText(proc[j].pid))
                      ELSE IF res = "digits" THEN FileOf(FmtNat(proc[j].pid))
                      ELSE IF res = "created" THEN FileOf(<<>>) ELSE @]
          /\ spawn' = [spawn EXCEPT ![j].pc = IF res = "written" THEN "ok" ELSE "err"]
    /\ Disturb
    /\ UNCHANGED <<proc, ext, sweep, reaper, stray, probe, web>>

\* ------------------------------------------------- the spawned processes
\* The job's process creates a file in its working directory, the job
\* directory.
ProcWrite(j, n) ==
    /\ proc[j].st = "alive"
    /\ fs[j].dir
    /\ n \notin fs[j].top
    /\ fs' = [fs EXCEPT ![j].top = @ \cup {n}]
    /\ Disturb
    /\ UNCHANGED <<proc, ext, spawn, sweep, reaper, stray, probe, web>>

\* The job's process terminates: it stays in the process table until its
\* parent waits for it, and the parent gets SIGCHLD.
ProcExit(j) ==
    /\ proc[j].st = "alive"
    /\ proc' = [proc EXCEPT ![j].st = "zombie"]
    /\ reaper' = [reaper EXCEPT !.pending = TRUE]
    /\ Disturb
    /\ UNCHANGED <<fs, ext, spawn, sweep, stray, probe, web>>

\* An unrelated process starts under a free process id, or ends.
ExtStart(p, owner) ==
    /\ PidFree(p)
    /\ ext' = [ext EXCEPT ![p] = owner]
    /\ Disturb
    /\ UNCHANGED <<fs, proc, spawn, sweep, reaper, stray, probe, web>>

ExtExit(p) ==
    /\ ext[p] # "none"
    /\ ext' = [ext EXCEPT ![p] = "none"]
    /\ Disturb
    /\ UNCHANGED <<fs, proc, spawn, sweep, reaper, stray, probe, web>>

\* ------------------------------------------------------- the child reaper
\* `for _ in signals.forever()`: the thread wakes when SIGCHLD is pending;
\* signals that arrived together are delivered once.
ReaperWake ==
    /\ reaper.pc = "wait"
    /\ reaper.pending
    /\ reaper' = [pc |-> "reap", pending |-> FALSE]
    /\ Disturb
    /\ UNCHANGED <<fs, proc, ext, spawn, sweep, stray, probe, web>>

\* Faulty variant: no inner loop: one child is collected per wake-up.
ReaperWaitpidOnce ==
    /\ reaper.pc = "reap"
    /\ IF \E j \in JobIds : proc[j].st = "zombie"
       THEN \E j \in JobIds :
                /\ proc[j].st = "zombie"
                /\ proc' = [proc EXCEPT ![j].st = "reaped"]
       ELSE UNCHANGED proc
    /\ reaper' = [reaper EXCEPT !.pc = "wait"]
    /\ Disturb
    /\ UNCHANGED <<fs, ext, spawn, sweep, stray, probe, web>>

\* Faulty variant: the thread ends when waitpid finds nothing to collect.
ReaperWaitpidEnds ==
    /\ reaper.pc = "reap"
    /\ IF \E j \in JobIds : proc[j].st = "zombie"
       THEN /\ \E j \in JobIds :
                  /\ proc[j].st = "zombie"
                  /\ proc' = [proc EXCEPT ![j].st = "reaped"]
            /\ UNCHANGED reaper
       ELSE /\ reaper' = [reaper EXCEPT !.pc = "ended"]
            /\ UNCHANGED proc
    /\ Disturb
    /\ UNCHANGED <<fs, ext, spawn, sweep, stray, probe, web>>

\* One turn of the inner loop: waitpid(-1, null, WNOHANG) collects some
\* terminated child; a result <= 0 (none terminated, or no child) breaks.
ReaperWaitpid ==
    /\ reaper.pc = "reap"
    /\ IF \E j \in JobIds : proc[j].st = "zombie"
       THEN /\ \E j \in JobIds :
                  /\ proc[j].st = "zombie"
                  /\ proc' = [proc EXCEPT ![j].st = "reaped"]
            /\ UNCHANGED reaper
       ELSE /\ reaper' = [reaper EXCEPT !.pc = "wait"]
            /\ UNCHANGED proc
    /\ Disturb
    /\ UNCHANGED <<fs, ext, spawn, sweep, stray, probe, web>>

\* ---------------------------------------------------------- prune_job_dirs
\* Faulty variant: the loop steps over the job after the current one.
AdvanceSkipsOne(sw) ==
    IF Len(sw.todo) <= 2 THEN IdleSweep
    ELSE [pc |-> "probe", todo |-> Tail(Tail(sw.todo))]

\* The loop goes on to the next job, or returns after the last.
Advance(sw) ==
    IF Len(sw.todo) <= 1 THEN IdleSweep
    ELSE [pc |-> "probe", todo |-> Tail(sw.todo)]

\* Faulty variant: the error is dropped and the loop goes on.
RemoveFailedGoesOn(sw) == Advance(sw)

\* The `?` on a failed removal: the call returns, whatever is left to visit.
RemoveFailed(sw) == IdleSweep

\* `for job in self.jobs()`: the listing is taken once, in the order read_dir
\* gives; with no job the call returns Ok(()) at once.
PruneStart ==
    /\ sweep.pc = "idle"
    /\ \E q \in Listings(JobDirs) :
          /\ sweep' = IF Len(q) = 0 THEN IdleSweep ELSE [pc |-> "probe", todo |-> q]
          /\ hist' = [listing |-> IF Len(q) = 0 THEN <<>> ELSE q,
                      qual |-> {j \in JobDirs : ~IsRunning(j) /\ FileNames(j) = {}},
                      removed |-> {}, failedAt |-> 0,
                      result |-> IF Len(q) = 0 THEN "Ok" ELSE "none",
                      prev |-> IF hist.clean THEN hist.result ELSE "none",
                      clean |-> TRUE]
    /\ UNCHANGED <<fs, proc, ext, spawn, reaper, stray, probe, web>>

\* The history of a step that leaves the sweep in state sw.
Returned(h, sw) == IF sw.pc = "idle" THEN [h EXCEPT !.result = "Ok"] ELSE h

\* Faulty variant: the liveness of the job is not looked at.
PruneProbeNoCheck ==
    /\ sweep.pc = "probe"
    /\ sweep' = [sweep EXCEPT !.pc = "names"]
    /\ UNCHANGED <<fs, proc, ext, spawn, hist, reaper, stray, probe, web>>

\* `!job.is_running() && ...`: a running job is skipped.
PruneProbe ==
    /\ sweep.pc = "probe"
    /\ sweep' = IF IsRunning(Head(sweep.todo)) THEN Advance(sweep)
                ELSE [sweep EXCEPT !.pc = "names"]
    /\ hist' = Returned(hist, sweep')
    /\ UNCHANGED <<fs, proc, ext, spawn, reaper, stray, probe, web>>

\* Faulty variant: the output files of the job are not looked at.
PruneNamesNoCheck ==
    /\ sweep.pc = "names"
    /\ sweep' = [sweep EXCEPT !.pc = "remove"]
    /\ UNCHANGED <<fs, proc, ext, spawn, hist, reaper, stray, probe, web>>

\* `... && job.file_names().is_empty()`: a job with an output file is skipped.
PruneNames ==
    /\ sweep.pc = "names"
    /\ sweep' = IF FileNames(Head(sweep.todo)) # {} THEN Advance(sweep)
                ELSE [sweep EXCEPT !.pc = "remove"]
    /\ hist' = Returned(hist, sweep')
    /\ UNCHANGED <<fs, proc, ext, spawn, reaper, stray, probe, web>>

\* `fs::remove_dir_all(&job.job_dir.path)?`: the tree goes and the loop goes
\* on, or the removal fails (always so when the directory is no longer
\* there) and the call returns the error at once.
PruneRemove ==
    /\ sweep.pc = "remove"
    /\ LET j == Head(sweep.todo)
       IN  \/ /\ fs[j].dir
              /\ fs' = [fs EXCEPT ![j] = NoDir]
              /\ sweep' = Advance(sweep)
              /\ hist' = Returned([hist EXCEPT !.removed = @ \cup {j}], sweep')
           \/ /\ sweep' = RemoveFailed(sweep)
              /\ hist' = [hist EXCEPT !.result = "Err", !.failedAt = j]
              /\ UNCHANGED fs
    /\ UNCHANGED <<proc, ext, spawn, reaper, stray, probe, web>>

\* ------------------------------------------------------------ Job deletion
\* DELETE /jobs: the job's whole directory tree is removed, whatever its
\* state.
DeleteJob(j) ==
    /\ RecorderJob(j).some
    /\ fs' = [fs EXCEPT ![j] = NoDir]
    /\ Disturb
    /\ UNCHANGED <<proc, ext, spawn, sweep, reaper, stray, probe, web>>

\* ---------------------------------------------------------- identifiers
\* Crockford's base-32 digits, which Ulid::to_string writes.
Crockford ==
    << "0", "1", "2", "3", "4", "5", "6", "7", "8", "9", "A", "B", "C", "D",
       "E", "F", "G", "H", "J", "K", "M", "N", "P", "Q", "R", "S", "T", "V",
       "W", "X", "Y", "Z" >>

\* The digits and capital letters in the order of their bytes, which is the
\* order `sort` compares strings by.
ByteOrder ==
    << "0", "1", "2", "3", "4", "5", "6", "7", "8", "9", "A", "B", "C", "D",
       "E", "F", "G", "H", "I", "J", "K", "L", "M", "N", "O", "P", "Q", "R",
       "S", "T", "U", "V", "W", "X", "Y", "Z" >>

ByteRank(c) == CHOOSE i \in DOMAIN ByteOrder : ByteOrder[i] = c

\* Faulty variant: the digits of n without leading zeros.
RECURSIVE Base32NoPad(_, _)
Base32NoPad(n, w) ==
    IF n < 32 THEN <<Crockford[n + 1]>>
    ELSE Base32NoPad(n \div 32, w) \o <<Crockford[(n % 32) + 1]>>

\* n in w base-32 digits, most significant first.
RECURSIVE Base32(_, _)
Base32(n, w) ==
    IF w = 0 THEN <<>>
    ELSE Base32(n \div 32, w - 1) \o <<Crockford[(n % 32) + 1]>>

\* Faulty variant: the random part is left out of the string.
UlidStringTimeOnly(ms, rnd) == Base32(ms, TimeChars) \o Base32(0, RandChars)

\* Ulid::to_string: the timestamp, then the random part.
UlidString(ms, rnd) == Base32(ms, TimeChars) \o Base32(rnd, RandChars)

\* a < b as Rust compares strings: byte by byte, a prefix first.
RECURSIVE StrLess(_, _)
StrLess(a, b) ==
    IF b = <<>> THEN FALSE
    ELSE IF a = <<>> THEN TRUE
    ELSE IF Head(a) # Head(b) THEN ByteRank(Head(a)) < ByteRank(Head(b))
    ELSE StrLess(Tail(a), Tail(b))

\* What the other operations work on.
core == <<fs, proc, ext, spawn, sweep, hist, reaper, stray, probe>>

\* The wall clock advances by a millisecond, or is set back.
ClockTick ==
    /\ clock < MaxTick
    /\ clock' = clock + 1
    /\ UNCHANGED <<core, host, issued, tree, disk, reply>>

ClockSetBack ==
    /\ clock > 0
    /\ \E t \in 0..(clock - 1) : clock' = t
    /\ UNCHANGED <<core, host, issued, tree, disk, reply>>

\* Recorder::spawn_job seen from the work directory: JobId::new takes the
\* clock and fresh random bits, then Job::spawn makes the directory of that
\* name if it is not there (create_dir_all) and creates its files, cutting
\* the files that are there (File::create).
SpawnJobNew(rnd, command, args) ==
    /\ Len(issued) < MaxIds
    /\ LET id == [ms |-> TimeBase + clock, rnd |-> rnd,
                  str |-> UlidString(TimeBase + clock, rnd)]
       IN  /\ issued' = Append(issued, id)
           /\ tree' = { d \in tree : d.name # id.str }
                         \cup { [name |-> id.str, owner |-> Len(issued) + 1,
                                 inv |-> InvocationText(command, args)] }
    /\ UNCHANGED <<core, host, clock, disk, reply>>

\* ------------------------------------------------------- the specification
Init ==
    /\ fs = [j \in JobIds |-> NoDir]
    /\ proc = [j \in JobIds |-> NoProc]
    /\ ext = [p \in Pids |-> "none"]
    /\ spawn = [j \in JobIds |-> [pc |-> "new", command |-> <<>>, args |-> <<>>]]
    /\ sweep = IdleSweep
    /\ hist = NoHist
    /\ reaper = [pc |-> "wait", pending |-> FALSE]
    /\ stray = "file"
    /\ probe = [asked |-> FALSE, job |-> StrayName, running |-> FALSE]
    /\ WebIdle

\* The files of info/ that are there.
InfoFiles(j) ==
    {w \in {"inv", "pid"} : fs[j][w].ex} \cup {w \in {"out", "err"} : fs[j][w]}

\* fs::remove_dir_all under way: it unlinks the entries of the tree one by
\* one, in the order read_dir gives them, before it removes the
\* directories; here one file of info/ goes.
PruneUnlink ==
    /\ sweep.pc = "remove"
    /\ LET j == Head(sweep.todo)
       IN  /\ fs[j].dir /\ fs[j].info
           /\ \E w \in InfoFiles(j) :
                 fs' = [fs EXCEPT ![j][w] = IF w \in {"inv", "pid"} THEN NoFile
                                           ELSE FALSE]
    /\ UNCHANGED <<proc, ext, spawn, sweep, hist, reaper, stray, probe, web>>

SpawnStep ==
    \E j \in JobIds :
        \/ SpawnWriteInvocation(j)
        \/ SpawnCreateStreams(j)
        \/ SpawnLaunch(j)
        \/ SpawnWritePid(j)

SpawnCall ==
    \E j \in JobIds, command \in Commands, args \in ArgVectors :
        SpawnCreateInfo(j, command, args)

PruneStep == PruneProbe \/ PruneNames \/ PruneRemove

Environment ==
    \/ \E j \in JobIds, n \in TopNames : ProcWrite(j, n)
    \/ \E j \in JobIds : ProcExit(j)
    \/ ReaperWake
    \/ ReaperWaitpid

Next ==
    \/ SpawnCall
    \/ SpawnStep
    \/ PruneStart
    \/ PruneStep
    \/ \E j \in JobIds : DeleteJob(j)
    \/ Environment

Spec == Init /\ [][Next]_vars

\* spawn_job and the sweep with the removal of a tree taken entry by entry,
\* as the files of a job directory come and go.
NextOrder ==
    \/ SpawnCall
    \/ SpawnStep
    \/ PruneStart
    \/ PruneStep
    \/ PruneUnlink

SpecOrder == Init /\ [][NextOrder]_vars

\* The recorder, the sweep and the life of the processes, without the
\* output files (is_running reads none of them, and a directory is kept or
\* removed with or without them), under a scheduler that lets the reaper
\* thread run: the thread is started once with the web server and is never
\* blocked for good.
NextLive ==
    \/ SpawnCall
    \/ SpawnStep
    \/ PruneStart
    \/ PruneStep
    \/ \E j \in JobIds : DeleteJob(j)
    \/ \E j \in JobIds : ProcExit(j)
    \/ ReaperWake
    \/ ReaperWaitpid

LiveSpec ==
    Init /\ [][NextLive]_vars /\ WF_vars(ReaperWake) /\ WF_vars(ReaperWaitpid)

\* ------------------------------------------------ liveness requests alone
\* HEAD /jobs/{id}/process: `job.map(|j| j.is_running()).unwrap_or(false)`.
HeadJobProcess(n) ==
    /\ probe' = [asked |-> TRUE, job |-> n,
                 running |-> IF RecorderJob(n).some THEN IsRunning(n) ELSE FALSE]
    /\ UNCHANGED <<fs, proc, ext, spawn, sweep, hist, reaper, stray, web>>

\* What info/pid.txt may hold when it is not what spawn wrote: nothing, a
\* number with or without the newline, with blanks after or before it, with
\* a sign, zero, a negative number, a number past the process table or past
\* i32, letters.
ProbeTexts ==
    { <<>>, <<"1", "\n">>, <<"2", "\n">>, <<"1">>, <<"2", " ", "\n">>,
      <<" ", "1", "\n">>, <<"+", "1", "\n">>, <<"0", "\n">>, <<"-", "1", "\n">>,
      <<"-", "2", "\n">>, <<"-", "3", "\n">>, <<"3", "\n">>, <<"x", "\n">>,
      <<"1", "x", "\n">>, <<"-", "\n">>,
      <<"2", "1", "4", "7", "4", "8", "3", "6", "4", "8", "\n">> }

ProbeFiles ==
    {NoFile} \cup { FileOf(t) : t \in ProbeTexts }
        \cup { [FileOf(PidText(1)) EXCEPT !.rd = r] : r \in {"deny", "bad"} }

\* Texts that are not one JSON value, given the text t that spawn writes (a
\* value and a newline): nothing, the value without its closing brace, an
\* opening brace alone, the text followed by more, and a letter.
BrokenTexts(t) ==
    { <<>>, SubSeq(t, 1, Len(t) - 2), <<"{">>, t \o <<"x">>, <<"x">> }

\* What invocation.json can be when it is read: as spawn wrote it, gone,
\* not openable, failing while read, or holding a broken text.
InvFiles(t) ==
    {FileOf(t), NoFile, [FileOf(t) EXCEPT !.rd = "deny"],
     [FileOf(t) EXCEPT !.rd = "bad"]}
      \cup {FileOf(b) : b \in BrokenTexts(t)}

\* GET /jobs/{id}: 404 when the recorder has no such job; otherwise the
\* page, with `job.invocation().unwrap_or_else(|| json!({}))`.
GetJob(n) ==
    /\ reply' = IF RecorderJob(n).some
                THEN [NoReply EXCEPT !.op = "job", !.job = n, !.status = 200,
                                     !.val = IF Invocation(n).some
                                             THEN Invocation(n)
                                             ELSE Some({})]
                ELSE [NoReply EXCEPT !.op = "job", !.job = n, !.status = 404]
    /\ UNCHANGED <<core, host, clock, issued, tree, disk>>

\* Job 1 has been spawned; its pid file, its invocation file, its process
\* and the other processes of the system are in any state they can be in.
InitProbe ==
    /\ \E f \in ProbeFiles, command \in Commands, args \in ArgVectors :
       \E g \in InvFiles(InvocationText(command, args)) :
          /\ fs = [j \in JobIds |->
                      IF j = 1
                      THEN [dir |-> TRUE, info |-> TRUE,
                            inv |-> g,
                            out |-> TRUE, err |-> TRUE, pid |-> f, top |-> {}]
                      ELSE NoDir]
          /\ spawn = [j \in JobIds |->
                      IF j = 1 THEN [pc |-> "ok", command |-> command, args |-> args]
                      ELSE [pc |-> "new", command |-> <<>>, args |-> <<>>]]
    /\ \E st \in {"alive", "zombie", "reaped"} :
          proc = [j \in JobIds |-> IF j = 1 THEN [pid |-> 1, st |-> st] ELSE NoProc]
    /\ ext \in [Pids -> {"none", "same", "foreign"}]
    /\ Living(1) => ext[1] = "none"
    /\ sweep = IdleSweep
    /\ hist = NoHist
    /\ reaper = [pc |-> "wait", pending |-> FALSE]
    /\ stray = "file"
    /\ probe = [asked |-> FALSE, job |-> StrayName, running |-> FALSE]
    /\ WebIdle

NextProbe ==
    \/ \E n \in JobIds \cup {StrayName} : HeadJobProcess(n)
    \/ \E n \in JobIds \cup {StrayName} : GetJob(n)
    \/ \E p \in Pids, owner \in {"same", "foreign"} : ExtStart(p, owner)
    \/ \E p \in Pids : ExtExit(p)

SpecProbe == InitProbe /\ [][NextProbe]_vars

\* ------------------------------------------------------- named requests
\* The directory the server runs in, and WORK_DIR relative to it
\* (web.rs:38 takes "var" when the variable is not set; here "v").
Cwd == << <<"a">> >>
WorkDirPath == <<"v">>

\* The position of the first "/" of s, or one past its end.
FirstSlash(s) ==
    CHOOSE k \in 1..(Len(s) + 1) :
        /\ k = Len(s) + 1 \/ s[k] = "/"
        /\ \A m \in 1..(k - 1) : s[m] # "/"

\* The names between the slashes of a path.
RECURSIVE PathParts(_)
PathParts(s) ==
    IF s = <<>> THEN <<>>
    ELSE LET k == FirstSlash(s)
             rest == SubSeq(s, k + 1, Len(s))
         IN  IF k = 1 THEN PathParts(rest)
             ELSE <<SubSeq(s, 1, k - 1)>> \o PathParts(rest)

IsAbsolute(s) == s # <<>> /\ s[1] = "/"

\* Path::join: an absolute path replaces the base.
PathJoin(base, s) ==
    IF IsAbsolute(s) THEN s
    ELSE IF base = <<>> \/ base[Len(base)] = "/" THEN base \o s
    ELSE base \o <<"/">> \o s

\* The bytes percent_decode knows here: "%2E" is ".", "%2F" is "/".
HexByte(h, l) ==
    IF h = "2" /\ l = "E" THEN <<".">>
    ELSE IF h = "2" /\ l = "F" THEN <<"/">>
    ELSE <<"%", h, l>>

\* percent_decode(..).decode_utf8_lossy().
RECURSIVE PercentDecode(_)
PercentDecode(s) ==
    IF s = <<>> THEN <<>>
    ELSE IF s[1] = "%" /\ Len(s) >= 3
         THEN HexByte(s[2], s[3]) \o PercentDecode(SubSeq(s, 4, Len(s)))
    ELSE <<s[1]>> \o PercentDecode(Tail(s))

KindAt(D, at) ==
    IF \E e \in D : e.path = at
    THEN (CHOOSE e \in D : e.path = at).kind
    ELSE "absent"

\* How the system follows the names of a path from a directory: "." stays,
\* ".." goes to the parent (the root is its own parent), and every name
\* is looked up in a directory that exists.
RECURSIVE Walk(_, _, _)
Walk(D, cur, parts) ==
    IF parts = <<>> THEN [ok |-> TRUE, at |-> cur]
    ELSE IF KindAt(D, cur) # "dir" THEN [ok |-> FALSE, at |-> cur]
    ELSE LET c == Head(parts)
             to == IF c = <<".">> THEN cur
                   ELSE IF c = <<".", ".">>
                        THEN (IF cur = <<>> THEN cur
                              ELSE SubSeq(cur, 1, Len(cur) - 1))
                   ELSE Append(cur, c)
         IN  Walk(D, to, Tail(parts))

\* Where a path leads, and what is there.
Resolve(D, s) ==
    LET r == Walk(D, IF IsAbsolute(s) THEN <<>> ELSE Cwd, PathParts(s))
    IN  IF r.ok THEN [at |-> r.at, kind |-> KindAt(D, r.at)]
        ELSE [at |-> r.at, kind |-> "absent"]

IsPrefix(p, q) == Len(p) <= Len(q) /\ SubSeq(q, 1, Len(p)) = p

\* WorkDir::job_dir.
JobDirPath(id) == PathJoin(WorkDirPath, id)

\* The directory of the job named id, as names from the root.
JobDirOf(id) == Cwd \o <<WorkDirPath, id>>

\* Recorder::job, for the identifier a request carries.
JobNamed(D, id) == Resolve(D, JobDirPath(id)).kind = "dir"

\* The tree at a path, removed.
RemoveDirAll(D, at) == { e \in D : ~IsPrefix(at, e.path) }

File(p) == [path |-> p, kind |-> "file"]
Dir(p) == [path |-> p, kind |-> "dir"]

\* The server's directory with its settings file "e", the work directory
\* with jobs J and K and one output file each, and, outside, a file "s"
\* and a directory "d" with a file.
SomeDisk ==
    { Dir(<<>>), Dir(Cwd), File(Cwd \o << <<"e">> >>),
      Dir(Cwd \o <<WorkDirPath>>),
      Dir(JobDirOf(<<"J">>)), File(JobDirOf(<<"J">>) \o << <<"o">> >>),
      Dir(JobDirOf(<<"K">>)), File(JobDirOf(<<"K">>) \o << <<"o">> >>),
      File(<< <<"s">> >>), Dir(<< <<"d">> >>), File(<< <<"d">>, <<"f">> >>) }

\* Identifiers the route /jobs/{id:[0-9A-Z]+}/.. lets through.
RouteIds == { <<"J">>, <<"K">>, <<"Z">> }

\* Identifiers a DELETE /jobs payload may carry: any string.
PayloadIds == RouteIds \cup { <<".", ".">>, <<"/", "d">>, <<"J", "/", ".", ".", "/", "K">> }

\* File names a request may carry ({file_name:.*}).
RequestNames ==
    { <<"o">>, <<"n">>, <<".", ".", "/", "K", "/", "o">>,
      <<".", ".", "%", "2", "F", ".", ".", "%", "2", "F", "e">>,
      <<"%", "2", "F", "s">>, <<"/", "d", "/", "f">>,
      <<"%", "2", "E", "/", "o">> }

\* GET /jobs/{id}/{file_name}.
GetJobFile(id, name) ==
    /\ reply' =
         IF ~JobNamed(disk, id)
         THEN [NoReply EXCEPT !.op = "file", !.id = id, !.name = name,
                              !.status = 404]
         ELSE LET file_name == PercentDecode(name)
                  r == Resolve(disk, PathJoin(JobDirPath(id), file_name))
              IN  [NoReply EXCEPT !.op = "file", !.id = id, !.name = name,
                                  !.path = r.at,
                                  !.status = IF r.kind = "file" THEN 200
                                             ELSE 404]
    /\ UNCHANGED <<core, host, clock, issued, tree, disk>>

\* Job::safe_delete: the job's directory tree is removed, or the removal
\* fails and leaves it.
SafeDelete(id, done) ==
    /\ done \in {"removed", "failed"}
    /\ disk' = IF done = "removed"
               THEN RemoveDirAll(disk, Resolve(disk, JobDirPath(id)).at)
               ELSE disk

\* The configured ACCESS_KEY, and the keys a request may carry: the right
\* one, another, and none (or the empty one).
AccessKey == <<"k">>
Keys == { AccessKey, <<"x">>, <<>> }

\* Faulty variant: the key of the payload is not looked at.
DeleteJobsAnyKey(access_key, id) ==
    /\ IF ~JobNamed(disk, id)
       THEN /\ reply' = [NoReply EXCEPT !.op = "delete", !.id = id,
                                        !.key = access_key, !.status = 200]
            /\ UNCHANGED disk
       ELSE \E done \in {"removed", "failed"} :
            /\ SafeDelete(id, done)
            /\ reply' = [NoReply EXCEPT !.op = "delete", !.id = id,
                                        !.key = access_key,
                                        !.path = Resolve(disk, JobDirPath(id)).at,
                                        !.done = done, !.status = 200]
    /\ UNCHANGED <<core, host, clock, issued, tree>>

\* DELETE /jobs with one identifier in the payload: 401 when the payload's
\* access key is not the configured one; otherwise the job, when there is
\* one, is deleted, and the answer is 200.
DeleteJobs(access_key, id) ==
    IF access_key # AccessKey
    THEN /\ reply' = [NoReply EXCEPT !.op = "delete", !.id = id,
                                     !.key = access_key, !.status = 401]
         /\ UNCHANGED <<core, host, clock, issued, tree, disk>>
    ELSE DeleteJobsAnyKey(access_key, id)

InitWeb ==
    /\ fs = [j \in JobIds |-> NoDir]
    /\ proc = [j \in JobIds |-> NoProc]
    /\ ext = [p \in Pids |-> "none"]
    /\ spawn = [j \in JobIds |-> [pc |-> "new", command |-> <<>>, args |-> <<>>]]
    /\ sweep = IdleSweep
    /\ hist = NoHist
    /\ reaper = [pc |-> "wait", pending |-> FALSE]
    /\ stray = "file"
    /\ probe = [asked |-> FALSE, job |-> StrayName, running |-> FALSE]
    /\ clock = 0
    /\ issued = <<>>
    /\ tree = {}
    /\ disk = SomeDisk
    /\ reply = NoReply
    /\ vfs = NoVfs
    /\ size = <<>>

\* ------------------------------------------------------ directory listings
\* A byte that is not part of any UTF-8 text, as a file name may hold.
RawByte == "0xFF"

\* OsStr::to_str gives a string only for names that are valid Unicode.
IsUnicode(name) == \A i \in DOMAIN name : name[i] # RawByte

\* Path::is_dir and Path::is_file follow symbolic links.
IsDirKind(k) == k \in {"dir", "locked", "linkdir"}
IsFileKind(k) == k \in {"file", "linkfile"}

Entry(p, k) == [path |-> p, kind |-> k]

\* The work directory, as names from the root.
WorkRoot == Cwd \o <<WorkDirPath>>

\* Path::read_dir: the names directly under a directory that can be read
\* ("locked": a directory without the permission to read it).
ReadDir(D, at) ==
    IF KindAt(D, at) = "dir"
    THEN [ok |-> TRUE,
          names |-> { e.path[Len(e.path)] :
                        e \in { x \in D : /\ Len(x.path) = Len(at) + 1
                                          /\ IsPrefix(at, x.path) } }]
    ELSE [ok |-> FALSE, names |-> {}]

\* Faulty variant: every entry of the root is taken for a job.
JobDirsOfAnyEntry(D, q) == q

\* WorkDir::job_dirs over a listing q of the root: the entries that are
\* directories and whose name is a string.
JobDirsOf(D, q) ==
    SelectSeq(q, LAMBDA n : IsDirKind(KindAt(D, Append(WorkRoot, n)))
                            /\ IsUnicode(n))

\* Recorder::jobs.
Jobs ==
    /\ \E q \in Listings(ReadDir(disk, WorkRoot).names) :
          reply' = [NoReply EXCEPT !.op = "jobs", !.path = JobDirsOf(disk, q)]
    /\ UNCHANGED <<core, host, clock, issued, tree, disk>>

\* What the work directory may hold: a job, a plain file, a link to a
\* directory elsewhere, a directory whose name is not Unicode, and a
\* directory whose name starts with a dot.
RootEntries ==
    { Entry(Append(WorkRoot, <<"J">>), "dir"),
      Entry(Append(WorkRoot, <<"f">>), "file"),
      Entry(Append(WorkRoot, <<"L">>), "linkdir"),
      Entry(Append(WorkRoot, <<"N", RawByte>>), "dir"),
      Entry(Append(WorkRoot, <<".", "h">>), "dir") }

\* The work directory itself: there and readable, there and not readable,
\* a plain file, or missing.
RootStates ==
    { {Entry(WorkRoot, k)} : k \in {"dir", "locked", "file"} } \cup { {} }

\* JobDir::file_names over a listing q of the directory at `at`: the
\* entries that are files, whose name is a string and does not start with
\* a dot.
FileNamesOf(D, at, q) ==
    SelectSeq(q, LAMBDA n : /\ IsFileKind(KindAt(D, Append(at, n)))
                            /\ IsUnicode(n)
                            /\ n[1] # ".")

\* Job::file_names, on a handle for the identifier id.
JobFileNames(id) ==
    /\ \E q \in Listings(ReadDir(disk, JobDirOf(id)).names) :
          reply' = [NoReply EXCEPT !.op = "names", !.id = id,
                                   !.path = FileNamesOf(disk, JobDirOf(id), q)]
    /\ UNCHANGED <<core, host, clock, issued, tree, disk>>

\* What job J's directory may hold: an output file, a hidden file, info/
\* with a file in it, a link to a file elsewhere, and an output file whose
\* name is not Unicode.
JobEntries ==
    LET at == JobDirOf(<<"J">>)
    IN  { {Entry(Append(at, <<"o">>), "file")},
          {Entry(Append(at, <<".", "p">>), "file")},
          {Entry(Append(at, <<"i">>), "dir"),
           Entry(at \o << <<"i">>, <<"q">> >>, "file")},
          {Entry(Append(at, <<"l">>), "linkfile")},
          {Entry(Append(at, <<"m", RawByte>>), "file")} }

\* Job J's directory itself: there and readable, there and not readable,
\* or missing.
JobStates ==
    { {Entry(JobDirOf(<<"J">>), k)} : k \in {"dir", "locked"} } \cup { {} }

\* std::fs::create_dir_all along the names of a path: a name that is
\* missing is made in a directory that is there, a name that is a directory
\* is passed, and anything else fails and leaves what was made before it.
RECURSIVE MkDirs(_, _, _)
MkDirs(D, cur, parts) ==
    IF parts = <<>> THEN [ok |-> TRUE, disk |-> D]
    ELSE LET c == Head(parts)
             to == Append(cur, c)
         IN  IF KindAt(D, cur) # "dir" THEN [ok |-> FALSE, disk |-> D]
             ELSE IF c = <<".">> THEN MkDirs(D, cur, Tail(parts))
             ELSE IF c = <<".", ".">>
                  THEN MkDirs(D, IF cur = <<>> THEN cur
                                 ELSE SubSeq(cur, 1, Len(cur) - 1), Tail(parts))
             ELSE IF KindAt(D, to) = "absent"
                  THEN MkDirs(D \cup {Entry(to, "dir")}, to, Tail(parts))
             ELSE IF IsDirKind(KindAt(D, to)) THEN MkDirs(D, to, Tail(parts))
             ELSE [ok |-> FALSE, disk |-> D]

\* Faulty variant: an absolute path is joined and made like any other.
CreateDirUnchecked(id, path) ==
    LET s == PathJoin(JobDirPath(id), path)
        r == MkDirs(disk, IF IsAbsolute(s) THEN <<>> ELSE Cwd, PathParts(s))
    IN  /\ disk' = r.disk
        /\ reply' = [NoReply EXCEPT !.op = "mkdir", !.id = id, !.name = path,
                                    !.done = IF r.ok THEN "ok" ELSE "err"]
        /\ UNCHANGED <<core, host, clock, issued, tree>>

\* JobDir::create_dir: `assert!(path.as_ref().is_relative())`, then
\* fs::create_dir_all(self.path.join(path)).
CreateDir(id, path) ==
    IF IsAbsolute(path)
    THEN /\ reply' = [NoReply EXCEPT !.op = "mkdir", !.id = id, !.name = path,
                                     !.done = "panic"]
         /\ UNCHANGED <<core, host, clock, issued, tree, disk>>
    ELSE CreateDirUnchecked(id, path)

\* Paths create_dir may be given: the one spawn gives ("i" for "info"), two
\* levels, a level under a plain file, and an absolute path.
DirPaths ==
    { <<"i">>, <<"a", "/", "b">>, <<"o", "/", "x">>, <<"/", "d", "/", "x">> }

\* The disks of the listing requests: the work directory in each of its
\* states with any of the entries it may hold, and job J's directory in
\* each of its states with any of the entries it may hold.
ListDisks ==
    LET around == { Entry(<<>>, "dir"), Entry(Cwd, "dir"),
                    Entry(<< <<"d">> >>, "dir") }
    IN  { around \cup r \cup S : r \in RootStates, S \in SUBSET RootEntries }
          \cup { around \cup {Entry(WorkRoot, "dir")} \cup j \cup UNION T :
                   j \in JobStates, T \in SUBSET JobEntries }

InitList ==
    /\ fs = [j \in JobIds |-> NoDir]
    /\ proc = [j \in JobIds |-> NoProc]
    /\ ext = [p \in Pids |-> "none"]
    /\ spawn = [j \in JobIds |-> [pc |-> "new", command |-> <<>>, args |-> <<>>]]
    /\ sweep = IdleSweep
    /\ hist = NoHist
    /\ reaper = [pc |-> "wait", pending |-> FALSE]
    /\ stray = "file"
    /\ probe = [asked |-> FALSE, job |-> StrayName, running |-> FALSE]
    /\ clock = 0
    /\ issued = <<>>
    /\ tree = {}
    /\ disk \in ListDisks
    /\ reply = NoReply
    /\ vfs = NoVfs
    /\ size = <<>>

NextList ==
    \/ Jobs
    \/ JobFileNames(<<"J">>)
    \/ \E path \in DirPaths : CreateDir(<<"J">>, path)

SpecList == InitList /\ [][NextList]_vars

\* ------------------------------------------------------------ disk usage
\* The width of the words DiskStat::new computes on, scaled down from the
\* 64 bits of u64.
WordBits == 4

WordMax == 2^WordBits - 1

\* Faulty variant: the multiplication wraps instead of being checked.
WrappingMul(a, b) == Some((a * b) % (WordMax + 1))

\* u64::checked_mul.
CheckedMul(a, b) == IF a * b > WordMax THEN None ELSE Some(a * b)

\* u64::checked_sub.
CheckedSub(a, b) == IF a < b THEN None ELSE Some(a - b)

\* DiskStat::new on what statvfs gives: None when the path is not Unicode
\* or holds a NUL byte, when statvfs fails, and when one of the three
\* checked operations has no result.
DiskStatNew(v) ==
    IF v.path # "ok" \/ v.rc # 0 THEN None
    ELSE LET available == CheckedMul(v.f_bavail, v.f_frsize)
             total == CheckedMul(v.f_blocks, v.f_frsize)
         IN  IF ~available.some \/ ~total.some THEN None
             ELSE LET used == CheckedSub(total.val, available.val)
                  IN  IF ~used.some THEN None
                      ELSE Some([available |-> available.val,
                                 total |-> total.val,
                                 used |-> used.val])

\* u64::MAX in decimal digits.
U64Max == <<1, 8, 4, 4, 6, 7, 4, 4, 0, 7, 3, 7, 0, 9, 5, 5, 1, 6, 1, 5>>

\* d <= e for two digit strings of the same length.
RECURSIVE DigitsLeq(_, _)
DigitsLeq(d, e) ==
    IF d = <<>> THEN TRUE
    ELSE IF Head(d) # Head(e) THEN Head(d) < Head(e)
    ELSE DigitsLeq(Tail(d), Tail(e))

\* The digit string is a u64.
FitsU64(d) ==
    \/ Len(d) < Len(U64Max)
    \/ Len(d) = Len(U64Max) /\ DigitsLeq(d, U64Max)

\* The decimal digits of a word.
RECURSIVE ToDigits(_)
ToDigits(n) == IF n < 10 THEN <<n>> ELSE Append(ToDigits(n \div 10), n % 10)

\* i32::MIN, what a cast of negative infinity to i32 gives.
I32Min == -I32Max - 1

\* const UNITS.
UNITS == <<"B", "KB", "MB", "GB", "TB", "PB">>

\* floor(log1000(size)) of a size that is not zero.
Log1000(d) == (Len(d) - 1) \div 3

\* (size.log10() / 3.0).floor() as i32, on f64: the logarithm of zero is
\* negative infinity, which the cast takes to i32::MIN; the logarithm of
\* 999,999,999,999,998 and of 999,999,999,999,999 lies within half a unit
\* in the last place of 15.0, so it may come out as 15.0 and the quotient
\* as 5.
Exponents(d) ==
    IF d = <<0>> THEN {I32Min}
    ELSE IF /\ Len(d) = 15
            /\ \A i \in 1..14 : d[i] = 9
            /\ d[15] \in {8, 9}
         THEN {Log1000(d), Log1000(d) + 1}
         ELSE {Log1000(d)}

\* humanize_byte_size: the exponent capped at the last unit, then
\* UNITS[e as usize], which panics when the index is not in the table (a
\* negative e is a huge usize).
Humanize(d) ==
    { LET e == IF x < Len(UNITS) - 1 THEN x ELSE Len(UNITS) - 1
      IN  IF e >= 0 /\ e < Len(UNITS)
          THEN [done |-> "ok", e |-> e, unit |-> UNITS[e + 1]]
          ELSE [done |-> "panic", e |-> e, unit |-> ""] : x \in Exponents(d) }

\* A call of humanize_byte_size.
HumanizeByteSize ==
    /\ size # <<>>
    /\ reply.op = "none"
    /\ \E r \in Humanize(size) :
          reply' = [NoReply EXCEPT !.op = "humanize", !.done = r.done,
                                   !.status = r.e, !.val = Some(r.unit)]
    /\ UNCHANGED <<core, host, clock, issued, tree, disk>>

\* A call of DiskStat::new.
DiskStatCall ==
    /\ vfs.path # "none"
    /\ reply.op = "none"
    /\ reply' = [NoReply EXCEPT !.op = "statvfs", !.val = DiskStatNew(vfs)]
    /\ UNCHANGED <<core, host, clock, issued, tree, disk>>

\* The disk usage of get_jobs: the three sizes of DiskStat::new made
\* readable, N/A when there is none; the page is not rendered when one of
\* the calls panics.
GetJobsDiskUsage ==
    /\ vfs.path # "none"
    /\ reply.op = "none"
    /\ LET stat == DiskStatNew(vfs)
       IN  IF ~stat.some
           THEN reply' = [NoReply EXCEPT !.op = "get_jobs", !.status = 200,
                                         !.done = "ok", !.val = None]
           ELSE \E a \in Humanize(ToDigits(stat.val.available)),
                   t \in Humanize(ToDigits(stat.val.total)),
                   u \in Humanize(ToDigits(stat.val.used)) :
                   reply' =
                     IF "panic" \in {a.done, t.done, u.done}
                     THEN [NoReply EXCEPT !.op = "get_jobs", !.done = "panic"]
                     ELSE [NoReply EXCEPT !.op = "get_jobs", !.status = 200,
                             !.done = "ok",
                             !.val = Some([disk_available |-> a.unit,
                                           disk_total |-> t.unit,
                                           disk_used |-> u.unit])]
    /\ UNCHANGED <<core, host, clock, issued, tree, disk>>

\* The sizes humanize_byte_size is given: zero, and for each number of
\* digits of a u64 the least and the greatest values and their neighbours.
SizeInputs ==
    {<<0>>, U64Max} \cup
    { d \in { [i \in 1..n |-> IF i = 1 THEN lead
                              ELSE IF i = n THEN last ELSE mid] :
                n \in 1..Len(U64Max), lead \in {1, 9}, mid \in {0, 9},
                last \in {0, 8, 9} } : FitsU64(d) }

\* What statvfs may give: a path that cannot be made a C string, a call
\* that fails, and every triple of counts.
VfsInputs ==
    { [path |-> p, rc |-> 0, f_bavail |-> 0, f_blocks |-> 0, f_frsize |-> 0] :
        p \in {"not unicode", "nul"} }
    \cup { [path |-> "ok", rc |-> rc, f_bavail |-> a, f_blocks |-> b,
            f_frsize |-> f] :
             rc \in {0, -1}, a \in 0..WordMax, b \in 0..WordMax,
             f \in 0..WordMax }

InitDisk ==
    /\ fs = [j \in JobIds |-> NoDir]
    /\ proc = [j \in JobIds |-> NoProc]
    /\ ext = [p \in Pids |-> "none"]
    /\ spawn = [j \in JobIds |-> [pc |-> "new", command |-> <<>>, args |-> <<>>]]
    /\ sweep = IdleSweep
    /\ hist = NoHist
    /\ reaper = [pc |-> "wait", pending |-> FALSE]
    /\ stray = "file"
    /\ probe = [asked |-> FALSE, job |-> StrayName, running |-> FALSE]
    /\ clock = 0
    /\ issued = <<>>
    /\ tree = {}
    /\ disk = {}
    /\ reply = NoReply
    /\ \/ vfs \in VfsInputs /\ size = <<>>
       \/ vfs = NoVfs /\ size \in SizeInputs

NextDisk ==
    \/ HumanizeByteSize
    \/ DiskStatCall
    \/ GetJobsDiskUsage

SpecDisk == InitDisk /\ [][NextDisk]_vars

\* ------------------------------------------------ requests that spawn
\* The identifier spawn_job draws for a request.
NewId == <<"N">>

\* The disk after Recorder::spawn_job: create_dir("info") makes the job
\* directory and info/ under the work directory, and a spawn that goes
\* through leaves its four files there.
SpawnedDisk(D, ok) ==
    LET r == MkDirs(D, Cwd, <<WorkDirPath, NewId, <<"i">>>>)
        info == JobDirOf(NewId) \o << <<"i">> >>
    IN  IF r.ok /\ ok
        THEN r.disk \cup { Entry(Append(info, n), "file") :
                             n \in { <<"j">>, <<"o">>, <<"e">>, <<"p">> } }
        ELSE r.disk

\* Whether spawn_job can return Ok on the disk D.
CanSpawn(D) == MkDirs(D, Cwd, <<WorkDirPath, NewId, <<"i">>>>).ok

\* POST /download: 401 when no access_key field of the form holds the
\* configured key; 302 back to the form when no argument is given;
\* otherwise spawn_job, answered 302 to the job's page or 500.
PostDownload(access_key, args) ==
    /\ IF access_key # AccessKey
       THEN /\ reply' = [NoReply EXCEPT !.op = "download", !.key = access_key,
                                        !.status = 401]
            /\ UNCHANGED disk
       ELSE IF args = <<>>
       THEN /\ reply' = [NoReply EXCEPT !.op = "download", !.key = access_key,
                                        !.status = 302]
            /\ UNCHANGED disk
       ELSE \E ok \in {b \in BOOLEAN : b => CanSpawn(disk)} :
            /\ disk' = SpawnedDisk(disk, ok)
            /\ reply' = [NoReply EXCEPT !.op = "download", !.key = access_key,
                                        !.id = IF ok THEN NewId ELSE <<>>,
                                        !.done = IF ok THEN "spawned" ELSE "failed",
                                        !.status = IF ok THEN 302 ELSE 500]
    /\ UNCHANGED <<core, host, clock, issued, tree>>

\* POST /api/record: 401 when the payload's access key is not the
\* configured one; 200 when the mail holds no link; otherwise spawn_job,
\* answered 201, or 200 when it failed.
PostApiRecord(access_key, link) ==
    /\ IF access_key # AccessKey
       THEN /\ reply' = [NoReply EXCEPT !.op = "record", !.key = access_key,
                                        !.status = 401]
            /\ UNCHANGED disk
       ELSE IF ~link
       THEN /\ reply' = [NoReply EXCEPT !.op = "record", !.key = access_key,
                                        !.status = 200]
            /\ UNCHANGED disk
       ELSE \E ok \in {b \in BOOLEAN : b => CanSpawn(disk)} :
            /\ disk' = SpawnedDisk(disk, ok)
            /\ reply' = [NoReply EXCEPT !.op = "record", !.key = access_key,
                                        !.id = IF ok THEN NewId ELSE <<>>,
                                        !.done = IF ok THEN "spawned" ELSE "failed",
                                        !.status = IF ok THEN 201 ELSE 200]
    /\ UNCHANGED <<core, host, clock, issued, tree>>

NextWeb ==
    \/ \E id \in RouteIds, name \in RequestNames : GetJobFile(id, name)
    \/ \E access_key \in Keys, id \in PayloadIds : DeleteJobs(access_key, id)
    \/ \E access_key \in Keys, args \in {<<>>, <<"a">>} :
          PostDownload(access_key, args)
    \/ \E access_key \in Keys, link \in BOOLEAN : PostApiRecord(access_key, link)

SpecWeb == InitWeb /\ [][NextWeb]_vars

\* ------------------------------------------------------------- properties
Range(q) == { q[i] : i \in DOMAIN q }

\* The jobs a listing names before job j.
Before(q, j) == { q[i] : i \in { k \in DOMAIN q : \A m \in 1..k : q[m] # j } }

\* The jobs a listing names after job j.
After(q, j) == { q[i] : i \in { k \in DOMAIN q : \E m \in 1..(k - 1) : q[m] = j } }

\* The sweep removes job j's directory in this step.
PrunedNow(j) == j \in hist'.removed /\ j \notin hist.removed

\* A sweep has returned, and nothing else has acted since it began.
SweepAlone == sweep.pc = "idle" /\ hist.clean /\ hist.result # "none"

\* C1 (as amended): a sweep with no concurrent activity removes only job
\* directories whose job was not running and had no output file when the
\* sweep ran, every other job directory still exists afterwards, and when
\* the sweep returns Ok it has removed every such directory.
C1_SweepAloneRemovesTheQualifying ==
    SweepAlone =>
        /\ hist.removed \subseteq hist.qual
        /\ \A j \in hist.removed : ~fs[j].dir
        /\ \A j \in Range(hist.listing) \ hist.removed : fs[j].dir
        /\ hist.result = "Ok" => hist.removed = hist.qual

\* C1 as stated: a sweep with no concurrent activity removes a job directory
\* if and only if the job was not running and had no output file.
C1_AsStated ==
    SweepAlone =>
        /\ hist.removed = hist.qual
        /\ \A j \in Range(hist.listing) \ hist.removed : fs[j].dir

\* A sweep alone returned Ok, removed one directory and kept another.
C1_Witness ==
    /\ SweepAlone
    /\ hist.result = "Ok"
    /\ hist.removed # {}
    /\ Range(hist.listing) \ hist.removed # {}

\* C2 as stated: in every interleaving of the sweep with the steps of
\* spawn_job and with process exits, the sweep never removes the directory
\* of a job whose spawned process is alive at the moment of removal.
C2_AsStated ==
    [][\A j \in JobIds : PrunedNow(j) => proc[j].st # "alive"]_vars

C7_SecondSweepAfterOk ==
    (SweepAlone /\ hist.prev = "Ok") => (hist.removed = {} /\ hist.result = "Ok")

\* C7 as stated: whatever the first sweep returned, a second sweep with
\* nothing in between removes nothing and returns Ok.
C7_AsStated ==
    (SweepAlone /\ hist.prev # "none") => (hist.removed = {} /\ hist.result = "Ok")

\* A second sweep ran over existing job directories right after a sweep that
\* returned Ok.
C7_Witness ==
    SweepAlone /\ hist.prev = "Ok" /\ hist.listing # <<>>

\* C8: when the removal of a job directory fails, the sweep has returned the
\* error at that job: what it removed comes before that job in the listing
\* and stays removed, and nothing after that job is removed by the call.
C8_FailureStopsTheSweep ==
    hist.result = "Err" =>
        /\ sweep.pc = "idle"
        /\ hist.failedAt \in Range(hist.listing)
        /\ hist.removed \subseteq Before(hist.listing, hist.failedAt)
        /\ hist.removed \cap After(hist.listing, hist.failedAt) = {}
        /\ hist.clean => \A j \in hist.removed : ~fs[j].dir
        /\ hist.clean =>
              \A j \in After(hist.listing, hist.failedAt) \cup {hist.failedAt} : fs[j].dir

\* A sweep alone failed at a job and left a later directory that met the
\* condition for removal.
C8_Witness ==
    /\ SweepAlone
    /\ hist.result = "Err"
    /\ After(hist.listing, hist.failedAt) \cap hist.qual # {}

PidReused(j) ==
    \/ ext[proc[j].pid] # "none"
    \/ \E i \in JobIds \ {j} : Living(i) /\ proc[i].pid = proc[j].pid

\* C4 (as amended): after spawn_job has returned successfully and while the
\* job directory exists, is_running() is true in every state in which the
\* spawned process is alive; after the process exits is_running() is
\* eventually false, and once the process has been reaped it is false as
\* long as the process id is not reused.
C4_RunningWhileAliveInItsDirectory ==
    /\ [](\A j \in JobIds :
            (spawn[j].pc = "ok" /\ proc[j].st = "alive" /\ fs[j].dir) => IsRunning(j))
    /\ \A j \in JobIds :
            (spawn[j].pc = "ok" /\ proc[j].st = "zombie") ~> ~IsRunning(j)
    /\ [](\A j \in JobIds :
            (spawn[j].pc = "ok" /\ proc[j].st = "reaped" /\ ~PidReused(j)) => ~IsRunning(j))

\* C4 as stated: the same without the condition on the job directory.
C4_AsStated ==
    /\ [](\A j \in JobIds :
            (spawn[j].pc = "ok" /\ proc[j].st = "alive") => IsRunning(j))
    /\ \A j \in JobIds :
            (spawn[j].pc = "ok" /\ proc[j].st = "zombie") ~> ~IsRunning(j)
    /\ [](\A j \in JobIds :
            (spawn[j].pc = "ok" /\ proc[j].st = "reaped" /\ ~PidReused(j)) => ~IsRunning(j))

\* A successfully spawned job whose process has exited and been reaped is
\* seen as not running, in its directory, while another job runs.
C4_Witness ==
    \E j \in JobIds :
        /\ spawn[j].pc = "ok" /\ fs[j].dir /\ proc[j].st = "reaped" /\ ~IsRunning(j)
        /\ \E i \in JobIds \ {j} :
              spawn[i].pc = "ok" /\ fs[i].dir /\ proc[i].st = "alive" /\ IsRunning(i)

\* C5: a liveness request answers false for a job with no directory, and for
\* a job whose info/pid.txt is missing, cannot be opened or read, or does
\* not parse as an integer once trimmed, and whenever kill(pid, 0) fails.
C5_FailuresMeanNotRunning ==
    [][\A n \in JobIds \cup {StrayName} :
          (/\ HeadJobProcess(n)
           /\ \/ n \notin JobIds
              \/ ~fs[n].dir
              \/ ~fs[n].info
              \/ ~fs[n].pid.ex
              \/ fs[n].pid.rd # "ok"
              \/ ~ParseI32(TrimEnd(fs[n].pid.text)).ok
              \/ Kill(ParseI32(TrimEnd(fs[n].pid.text)).val) # 0)
          => ~probe'.running]_vars

\* A request about a job whose process is alive and whose pid.txt holds text
\* that is no integer has answered false.
C5_Witness ==
    /\ probe.asked /\ probe.job = 1 /\ ~probe.running
    /\ proc[1].st = "alive"
    /\ fs[1].pid.ex /\ fs[1].pid.rd = "ok" /\ fs[1].pid.text # <<>>
    /\ ~ParseI32(TrimEnd(fs[1].pid.text)).ok

\* A single process with that id exists.
ProcessExists(v) == v \in Pids /\ Occupant(v) # "free"

\* C6 as stated: for every integer content of pid.txt, positive, zero or
\* negative, a liveness request answers true exactly when a single process
\* with that id exists.
C6_AsStated ==
    [][\A n \in JobIds :
          (HeadJobProcess(n) /\ RecorderJob(n).some /\ JobPid(n).ok)
          => (probe'.running <=> ProcessExists(JobPid(n).val))]_vars

\* File f2 holds at least what file f1 held.
FileKept(f1, f2) == f1.ex => (f2.ex /\ f2.text = f1.text)

\* Directory d2 holds everything directory d1 held.
DirKept(d1, d2) ==
    /\ d1.dir => d2.dir
    /\ d1.info => d2.info
    /\ d1.out => d2.out
    /\ d1.err => d2.err
    /\ FileKept(d1.inv, d2.inv)
    /\ d1.top \subseteq d2.top

\* The spawn_job call of job j returns an error in this step.
SpawnFails(j) == spawn[j].pc # "err" /\ spawn'[j].pc = "err"

\* C11 (as amended): a spawn_job call that fails at any step returns the
\* error, leaves everything it created in the job directory, the launched
\* process included, and leaves no info/pid.txt unless the step that failed
\* is the writing of info/pid.txt itself.
C11_FailedSpawnLeavesItsFiles ==
    [][\A j \in JobIds :
          SpawnFails(j) =>
              /\ DirKept(fs[j], fs'[j])
              /\ proc'[j] = proc[j]
              /\ spawn[j].pc # "pid" => ~fs'[j].pid.ex
              /\ ~fs'[j].pid.ex \/ fs'[j].pid.text # PidText(proc[j].pid)]_vars

\* C11 as stated: a spawn_job call that fails at any step leaves everything
\* it created and no info/pid.txt.
C11_AsStated ==
    [][\A j \in JobIds :
          SpawnFails(j) => (DirKept(fs[j], fs'[j]) /\ ~fs'[j].pid.ex)]_vars

\* A spawn_job call has failed at the launch of the process, and its
\* directory is there with info/, invocation.json and the stream files, and
\* without pid.txt.
C11_Witness ==
    \E j \in JobIds :
        /\ spawn[j].pc = "err" /\ proc[j].st = "none"
        /\ fs[j].dir /\ fs[j].info /\ fs[j].inv.ex /\ fs[j].out /\ fs[j].err
        /\ ~fs[j].pid.ex

\* Job j's directory is there without info/pid.txt and without an output
\* file: what a spawn leaves that stopped before the pid.txt step.
PartialNoOutput(j) == fs[j].dir /\ ~fs[j].pid.ex /\ FileNames(j) = {}

\* C12 (as amended): a sweep with no concurrent activity that returns Ok
\* has removed every job directory of its listing that a stopped spawn left
\* without info/pid.txt and that has no output file.
C12_PartialDirsAreReclaimed ==
    (SweepAlone /\ hist.result = "Ok") =>
        \A j \in Range(hist.listing) : ~PartialNoOutput(j)

\* C12 as stated: every sweep that observes such a directory removes it.
C12_AsStated ==
    SweepAlone => \A j \in Range(hist.listing) : ~PartialNoOutput(j)

\* A sweep alone returned Ok and removed the directory of a spawn that had
\* failed before it launched a process.
C12_Witness ==
    /\ SweepAlone /\ hist.result = "Ok"
    /\ \E j \in hist.removed : spawn[j].pc = "err" /\ proc[j].st = "none"

\* C13: under a scheduler that lets the reaper thread run, every child that
\* terminates is eventually reaped, also when several have terminated and
\* one SIGCHLD stands for all of them.
C13_EveryZombieIsReaped ==
    \A j \in JobIds : (proc[j].st = "zombie") ~> (proc[j].st = "reaped")

\* Two children have terminated while the reaper thread waits, and one
\* notification is pending for both.
C13_Witness ==
    /\ reaper.pc = "wait" /\ reaper.pending
    /\ \E i, j \in JobIds : i # j /\ proc[i].st = "zombie" /\ proc[j].st = "zombie"

\* C14: the reaper thread is always waiting or reaping; a waitpid that
\* finds no terminated child, or no child at all, reaps nothing and takes
\* the thread back to waiting for the next notification.
C14_ReaperNeverEnds ==
    [][/\ reaper'.pc \in {"wait", "reap"}
       /\ (/\ reaper.pc = "reap"
           /\ \A j \in JobIds : proc[j].st # "zombie"
           /\ reaper'.pc # reaper.pc)
          => (reaper'.pc = "wait" /\ proc' = proc)]_vars

\* The reaper thread waits again after a waitpid that found no child at
\* all: every child there was has been reaped.
C14_Witness ==
    /\ reaper.pc = "wait" /\ ~reaper.pending
    /\ \E j \in JobIds : proc[j].st = "reaped"
    /\ \A j \in JobIds : proc[j].st \in {"none", "reaped"}

\* -------------------------------------------- the identifier generator alone
NextIds ==
    \/ ClockTick
    \/ ClockSetBack
    \/ \E rnd \in 0..MaxRand, command \in Commands, args \in ArgVectors :
          SpawnJobNew(rnd, command, args)

SpecIds == Init /\ [][NextIds]_vars

\* Calls i and k drew the same millisecond and the same random bits.
SameDraw(i, k) == issued[i].ms = issued[k].ms /\ issued[i].rnd = issued[k].rnd

\* The directory of call k holds what call k wrote.
OwnsItsDir(k) == \E d \in tree : d.name = issued[k].str /\ d.owner = k

\* C15 (as amended): two spawn_job calls whose identifiers differ in the
\* millisecond or in the random bits use different job directories, and a
\* call that shares its draw with no other call finds its files as it wrote
\* them.
C15_DistinctDrawsDistinctDirs ==
    \A k \in DOMAIN issued :
        /\ \A i \in DOMAIN issued \ {k} :
              ~SameDraw(i, k) => issued[i].str # issued[k].str
        /\ (\A i \in DOMAIN issued \ {k} : ~SameDraw(i, k)) => OwnsItsDir(k)

\* C15 as stated: any two spawn_job calls use different job directories,
\* and no call's files are overwritten by another.
C15_AsStated ==
    \A k \in DOMAIN issued :
        /\ \A i \in DOMAIN issued \ {k} : issued[i].str # issued[k].str
        /\ OwnsItsDir(k)

\* Two calls in the same millisecond drew different random bits, and each
\* has its own directory.
C15_Witness ==
    \E i, k \in DOMAIN issued :
        /\ i # k /\ issued[i].ms = issued[k].ms /\ issued[i].rnd # issued[k].rnd
        /\ OwnsItsDir(i) /\ OwnsItsDir(k)

\* C16 (as amended): identifiers whose millisecond timestamps increase have
\* string forms that compare in the same increasing order.
C16_TimestampOrderIsStringOrder ==
    \A i, k \in DOMAIN issued :
        issued[i].ms < issued[k].ms => StrLess(issued[i].str, issued[k].str)

\* C16 as stated: identifiers produced one after the other have string
\* forms that compare in that order.
C16_AsStated ==
    \A i, k \in DOMAIN issued :
        i < k => StrLess(issued[i].str, issued[k].str)

\* An identifier with the larger random part comes from the millisecond
\* before a carry into the next base-32 digit of the timestamp, and sorts
\* before the identifier of the millisecond after it.
C16_Witness ==
    \E i, k \in DOMAIN issued :
        /\ issued[i].ms = TimeBase + 1 /\ issued[k].ms = TimeBase + 2
        /\ issued[i].rnd > issued[k].rnd
        /\ StrLess(issued[i].str, issued[k].str)

\* C17 as stated: when the sweep comes to remove a job directory of its
\* listing that has disappeared in the meantime, it reports no error and
\* goes on to the remaining jobs.
C17_AsStated ==
    [][(/\ sweep.pc = "remove"
        /\ ~fs[Head(sweep.todo)].dir
        /\ sweep' # sweep)
       => (hist'.result # "Err" /\ sweep' = Advance(sweep))]_vars

\* The invocation file of job j is missing, cannot be opened, fails while
\* it is read, or holds a text that is not one JSON value.
InvocationUnusable(j) ==
    LET f == fs[j].inv
    IN  \/ ~f.ex
        \/ f.rd # "ok"
        \/ f.text \in BrokenTexts(InvocationText(spawn[j].command, spawn[j].args))

\* C20: invocation() gives None when invocation.json is missing, unreadable
\* or not valid JSON, and GET /jobs/{id} then answers 200 with an empty
\* object in its place: no error reaches the caller.
C20_UnusableInvocationIsNone ==
    \A j \in JobIds :
        (RecorderJob(j).some /\ InvocationUnusable(j)) =>
            (/\ Invocation(j) = None
             /\ ((reply.op = "job" /\ reply.job = j) =>
                    (reply.status = 200 /\ reply.val = Some({}))))

\* The page of a job was served while its invocation.json held a JSON
\* value followed by one more character.
C20_Witness ==
    \E j \in JobIds :
        /\ reply.op = "job" /\ reply.job = j /\ reply.status = 200
        /\ fs[j].inv.ex /\ fs[j].inv.rd = "ok"
        /\ fs[j].inv.text =
               InvocationText(spawn[j].command, spawn[j].args) \o <<"x">>

\* C19 as stated, for the files served: a file that GET
\* /jobs/{id}/{file_name} answers with lies inside the directory of job id.
C19_AsStated ==
    (reply.op = "file" /\ reply.status = 200) =>
        IsPrefix(JobDirOf(reply.id), reply.path)

\* C18 as stated, for the HTTP caller of delete: a deletion that failed is
\* not answered as a success.
C18_AsStated ==
    (reply.op = "delete" /\ reply.done = "failed") => reply.status # 200

\* No name comes twice in a sequence.
NoRepeat(q) == \A a, b \in DOMAIN q : q[a] = q[b] => a = b

\* The names directly under the work directory whose kind is one of K.
RootNames(K) ==
    { e.path[Len(e.path)] :
        e \in { x \in disk : /\ Len(x.path) = Len(WorkRoot) + 1
                             /\ IsPrefix(WorkRoot, x.path)
                             /\ x.kind \in K } }

\* C21 (as amended): jobs() gives exactly one Job for every entry of the
\* work directory that is a directory (readable or not), or a symbolic
\* link to one, and whose
\* name is valid Unicode, the name being the identifier as it is (a name
\* with a leading dot included); plain files give no entry, and a work
\* directory that cannot be read gives the empty result.
C21_OneJobPerNamedDirectory ==
    reply.op = "jobs" =>
        /\ NoRepeat(reply.path)
        /\ Range(reply.path) =
             IF KindAt(disk, WorkRoot) = "dir"
             THEN { n \in RootNames({"dir", "locked", "linkdir"}) : IsUnicode(n) }
             ELSE {}

\* C21 as stated: the result of jobs() names the subdirectories of the
\* work directory, all of them and nothing else.
C21_AsStated ==
    reply.op = "jobs" =>
        Range(reply.path) =
            IF KindAt(disk, WorkRoot) = "dir" THEN RootNames({"dir", "locked"})
            ELSE {}

\* jobs() was called on a work directory that holds a job, a plain file and
\* a directory with a leading dot, and gave the two directories.
C21_Witness ==
    /\ reply.op = "jobs"
    /\ <<"f">> \in RootNames({"file"})
    /\ Range(reply.path) = { <<"J">>, <<".", "h">> }

\* The names directly in the directory at `at` whose kind is one of K.
NamesIn(at, K) ==
    { e.path[Len(e.path)] :
        e \in { x \in disk : /\ Len(x.path) = Len(at) + 1
                             /\ IsPrefix(at, x.path)
                             /\ x.kind \in K } }

\* C22 as stated: file_names() gives the names of the regular files
\* directly in the job directory that do not start with a dot, all of them
\* and nothing else, and nothing when the directory cannot be read.
C22_AsStated ==
    reply.op = "names" =>
        Range(reply.path) =
            IF KindAt(disk, JobDirOf(reply.id)) = "dir"
            THEN { n \in NamesIn(JobDirOf(reply.id), {"file"}) : n[1] # "." }
            ELSE {}

\* The directory create_dir(path) is to make for the job id, as names from
\* the root.
DirTarget(id, path) == JobDirOf(id) \o PathParts(path)

\* C27 (as amended): create_dir called with an absolute path stops at its
\* assertion, a panic and not an I/O error, and creates nothing; called
\* with a relative path it removes nothing, makes only directories on the
\* way to its target, and when it returns Ok the target and every
\* directory on the way to it exist; otherwise it returns an I/O error.
C27_CreateDirAssertsRelative ==
    [][(reply'.op = "mkdir" /\ <<disk, reply>>' # <<disk, reply>>) =>
          LET to == DirTarget(reply'.id, reply'.name)
          IN  IF IsAbsolute(reply'.name)
              THEN disk' = disk /\ reply'.done = "panic"
              ELSE /\ reply'.done \in {"ok", "err"}
                   /\ disk \subseteq disk'
                   /\ \A e \in disk' \ disk : e.kind = "dir" /\ IsPrefix(e.path, to)
                   /\ reply'.done = "ok" =>
                        \A k \in 1..Len(to) :
                            IsDirKind(KindAt(disk', SubSeq(to, 1, k)))]_vars

\* C27 as stated: create_dir called with an absolute path returns an I/O
\* error to its caller.
C27_AsStated ==
    (reply.op = "mkdir" /\ IsAbsolute(reply.name)) => reply.done = "err"

\* create_dir was called with an absolute path on a disk where a relative
\* call had made two levels under the job root before.
C27_Witness ==
    /\ reply.op = "mkdir" /\ IsAbsolute(reply.name) /\ reply.done = "panic"
    /\ KindAt(disk, DirTarget(<<"J">>, <<"a", "/", "b">>)) = "dir"
    /\ KindAt(disk, << <<"d">>, <<"x">> >>) = "absent"

\* A job directory with info/pid.txt has the three files spawn makes before
\* it, and the job's process has been launched.
PidFileIsLast(j) ==
    fs[j].pid.ex =>
        /\ fs[j].dir /\ fs[j].info
        /\ fs[j].inv.ex /\ fs[j].out /\ fs[j].err
        /\ proc[j].st # "none"

\* The step takes a file or a directory of job j away.
Removes(j) ==
    \/ fs[j].dir /\ ~fs'[j].dir
    \/ fs[j].info /\ ~fs'[j].info
    \/ fs[j].inv.ex /\ ~fs'[j].inv.ex
    \/ fs[j].pid.ex /\ ~fs'[j].pid.ex
    \/ fs[j].out /\ ~fs'[j].out
    \/ fs[j].err /\ ~fs'[j].err

\* invocation.json of job j holds what spawn writes.
InvWritten(j) ==
    fs[j].inv = FileOf(InvocationText(spawn[j].command, spawn[j].args))

\* Job j's tree is as spawn's steps leave it: each thing is there only with
\* what spawn makes before it, and what the call has passed is there.
Intact(j) ==
    /\ fs[j].info => fs[j].dir
    /\ fs[j].inv.ex => fs[j].info
    /\ fs[j].out => InvWritten(j)
    /\ fs[j].err => fs[j].out
    /\ proc[j].st # "none" => fs[j].err
    /\ fs[j].pid.ex => proc[j].st # "none"
    /\ spawn[j].pc = "inv" => fs[j].info
    /\ spawn[j].pc = "streams" => InvWritten(j)
    /\ spawn[j].pc = "launch" => fs[j].err
    /\ spawn[j].pc = "pid" => proc[j].st # "none"
    /\ spawn[j].pc = "ok" => fs[j].pid = FileOf(PidText(proc[j].pid))

\* C23 (as amended): as long as no removal has taken a file or directory
\* of the job away, a job directory that contains info/pid.txt also
\* contains invocation.json, stdout.txt and stderr.txt and its process was
\* launched before pid.txt was made, a spawn that fails part-way included:
\* the tree starts intact, an intact tree has pid.txt last, and every step
\* other than a removal keeps it intact.  invocation.json, once spawn has
\* written it, keeps its text for as long as it is there.
C23_PidFileComesLast ==
    /\ \A j \in JobIds : Intact(j)
    /\ [](\A j \in JobIds : Intact(j) => PidFileIsLast(j))
    /\ [][\A j \in JobIds :
            /\ (Intact(j) /\ ~Removes(j)) => Intact(j)'
            /\ (spawn[j].pc \notin {"new", "inv"} /\ fs[j].inv.ex /\ fs'[j].inv.ex)
                  => fs'[j].inv = fs[j].inv]_vars

\* C23 as stated: in every reachable state a job directory that contains
\* info/pid.txt also contains the other three files of info/, and its
\* process has been launched.
C23_AsStated == \A j \in JobIds : PidFileIsLast(j)

\* One spawn has returned Ok with its four files in place while another
\* failed after launching its process and left no pid.txt.
C23_Witness ==
    \E i, j \in JobIds :
        /\ spawn[i].pc = "ok" /\ fs[i].pid.ex /\ fs[i].inv.ex
        /\ fs[i].out /\ fs[i].err /\ Intact(i)
        /\ spawn[j].pc = "err" /\ proc[j].st # "none" /\ fs[j].dir
        /\ ~fs[j].pid.ex /\ Intact(j)

\* The requests that are answered only with the access key.
KeyedOps == {"download", "record", "delete"}

\* C24: a POST /download, POST /api/record or DELETE /jobs request whose
\* access key is not the configured one is answered 401, spawns no job and
\* leaves the disk as it was.
C24_NoKeyNoChange ==
    [][(/\ reply'.op \in KeyedOps
        /\ reply'.key # AccessKey
        /\ <<disk, reply>>' # <<disk, reply>>)
       => (reply'.status = 401 /\ reply'.done = "none" /\ disk' = disk)]_vars

\* A DELETE /jobs with a wrong key, naming job J, was answered 401 after a
\* request with the right key had spawned a job, and both jobs are there.
C24_Witness ==
    /\ reply.op = "delete" /\ reply.key = <<"x">> /\ reply.status = 401
    /\ reply.id = <<"J">>
    /\ KindAt(disk, JobDirOf(<<"J">>)) = "dir"
    /\ KindAt(disk, JobDirOf(NewId)) = "dir"


\* C25 (as stated): for every size from 0 to u64::MAX, humanize_byte_size
\* does not panic and picks the unit of index min(floor(log1000(size)), 5),
\* which lies inside the table of six units.
C25_AsStated ==
    reply.op = "humanize" =>
        /\ reply.done = "ok"
        /\ reply.status \in 0..(Len(UNITS) - 1)
        /\ size # <<0>> =>
              reply.status = (IF Log1000(size) < 5 THEN Log1000(size) ELSE 5)

\* C26: when DiskStat::new returns a value, available and total are the
\* products of the counts by the fragment size, none of the three fields
\* exceeds a word, used + available = total and available <= total; when a
\* product does not fit a word or available exceeds total, it returns None.
C26_CheckedDiskStat ==
    reply.op = "statvfs" =>
        LET a == vfs.f_bavail * vfs.f_frsize
            t == vfs.f_blocks * vfs.f_frsize
        IN  /\ reply.val.some =>
                 /\ reply.val.val.available = a
                 /\ reply.val.val.total = t
                 /\ reply.val.val.used + reply.val.val.available
                      = reply.val.val.total
                 /\ reply.val.val.available <= reply.val.val.total
                 /\ \A f \in {"available", "total", "used"} :
                      reply.val.val[f] \in 0..WordMax
            /\ (a > WordMax \/ t > WordMax \/ a > t) => ~reply.val.some

\* DiskStat::new has returned a value on a disk partly used, whose counts
\* are not the sizes themselves.
C26_Witness ==
    /\ reply.op = "statvfs"
    /\ reply.val.some
    /\ vfs.f_frsize > 1
    /\ reply.val.val.used > 0
    /\ reply.val.val.available > 0

=============================================================================
